---- MODULE Spec2Model ----
(***************************************************************************)
(* A model of gresolutions.c: a GTK+ 3 tool that lists, per connected      *)
(* RandR output, the video modes the output advertises, labels each tab    *)
(* with the monitor name decoded from the EDID block, and switches the     *)
(* CRTC of an output to the mode of an activated row.                      *)
(*                                                                         *)
(* The X server is the environment: its outputs, CRTCs and mode table are  *)
(* state of the model, and its replies are inputs drawn from small sets.   *)
(* Undefined behaviour of the C code (reads past a buffer, a NULL          *)
(* Display) is a nondeterministic choice over what the reads can yield.    *)
(***************************************************************************)
EXTENDS Integers, Sequences, FiniteSets, TLC

(***************************************************************************)
(* Bounds of the model.                                                    *)
(***************************************************************************)
NumOutputs == 2
MaxMode == 3
MaxAdv == 3
MaxSwitches == 2
MaxPos == 1
MaxClock == 3
MaxTotal == 3

(***************************************************************************)
(* Constants of the program and of the RandR protocol it uses.             *)
(***************************************************************************)
EdidLen == 128
HeaderLen == 8
DescStart == 54
DescEnd == 126
DescStride == 18
NameLen == 13
ModelNameTag == 252
LineFeed == 10
RR_Connected == 0
RR_Disconnected == 1
RR_Rotate_0 == 1
RR_Interlace == 16
RR_DoubleScan == 32
None == 0
XA_INTEGER == 19
Success == 0

Outputs == 1..NumOutputs

\* a C pointer is a sequence: <<>> is NULL, <<v>> points to v
NULL == <<>>

Ptr(v) == <<v>>

Deref(p) == p[1]

(***************************************************************************)
(* Sequence helpers.                                                       *)
(***************************************************************************)
RECURSIVE SumBytes(_, _, _)
\* sum += edid[i] for i in from..to-1, in an unsigned char; the additions
\* are grouped in halves, which the sum modulo 256 does not depend on
SumBytes(edid, from, to) ==
  IF from >= to THEN 0
  ELSE IF from + 1 = to THEN edid[from] % 256
  ELSE LET mid == (from + to) \div 2
       IN (SumBytes(edid, from, mid) + SumBytes(edid, mid, to)) % 256

RECURSIVE CStr(_)
\* the C string held in a byte sequence: the bytes before the first NUL
CStr(bytes) ==
  IF bytes = <<>> \/ Head(bytes) = 0 THEN <<>>
  ELSE <<Head(bytes)>> \o CStr(Tail(bytes))

RECURSIVE HexDigits(_)
\* printf("%x"): the hexadecimal digits of n, most significant first
HexDigits(n) ==
  LET d == n % 16
      c == IF d < 10 THEN 48 + d ELSE 87 + d
  IN IF n < 16 THEN <<c>> ELSE HexDigits(n \div 16) \o <<c>>

\* the memory parseedid reads through the pointer it is given: the nitems
\* bytes of the malloc'ed copy, followed by whatever the heap holds behind it
EdidMemory(buf, junk) ==
  [i \in 0..(EdidLen - 1) |-> IF i < Len(buf) THEN buf[i + 1] ELSE junk[i + 1]]

(***************************************************************************)
(* output_edid_get: the copy of the EDID property, or NULL.                *)
(* prop is the server's reply to XRRGetOutputProperty.                     *)
(***************************************************************************)
output_edid_get(prop) ==
  IF prop.status = Success
       /\ prop.type = XA_INTEGER /\ prop.nitems >= 1 /\ prop.format = 8
  THEN [ret |-> Ptr(prop.data), length |-> prop.nitems]
  ELSE [ret |-> NULL, length |-> 0]

(***************************************************************************)
(* parseedid.                                                              *)
(***************************************************************************)
\* line 88: the bytes of the header the check complains about
HeaderByteBad(edid, i) ==
  ~(((i = 0 \/ i = 7) /\ edid[i] = 0) \/ (edid[i] = 255))

HeaderWarnings(edid) ==
  Cardinality({i \in 0..(HeaderLen - 1) : HeaderByteBad(edid, i)})

\* lines 95-96: the block at offset i is taken for the model name descriptor
IsNameDescriptor(edid, i) ==
  edid[i] = 0 /\ edid[i + 3] = ModelNameTag

\* lines 97-102: the 13 bytes copied into modelname
CopyName(edid, i) ==
  [j \in 0..(NameLen - 1) |->
     IF edid[i + 5 + j] = LineFeed THEN 0 ELSE edid[i + 5 + j]]

RECURSIVE ScanDescriptors(_, _, _)
\* lines 94-105: the loop over the descriptor blocks
ScanDescriptors(edid, i, modelname) ==
  IF ~(i < DescEnd) THEN modelname
  ELSE ScanDescriptors(edid, i + DescStride,
         IF IsNameDescriptor(edid, i) THEN CopyName(edid, i) ELSE modelname)

RECURSIVE DescriptorReads(_, _)
\* the indices the descriptor loop reads
DescriptorReads(edid, i) ==
  IF ~(i < DescEnd) THEN {}
  ELSE {i}
       \cup (IF edid[i] = 0 THEN {i + 3} ELSE {})
       \cup (IF IsNameDescriptor(edid, i)
             THEN {i + 5 + j : j \in 0..(NameLen - 1)} ELSE {})
       \cup DescriptorReads(edid, i + DescStride)

\* every index of edid[] that parseedid reads
EdidReads(edid) ==
  (0..(EdidLen - 1)) \cup (0..(HeaderLen - 1)) \cup DescriptorReads(edid, DescStart)

SetMax(S) == CHOOSE m \in S : \A n \in S : n <= m

parseedid(edid, modelname) ==
  [sumWarn   |-> SumBytes(edid, 0, EdidLen) # 0,
   hdrWarns  |-> HeaderWarnings(edid),
   modelname |-> ScanDescriptors(edid, DescStart, modelname),
   maxRead   |-> SetMax(EdidReads(edid))]

(***************************************************************************)
(* find_mode_by_xid: the first mode of res->modes with that id, or NULL.   *)
(***************************************************************************)
find_mode_by_xid(modes, xid) ==
  LET hits == {k \in 1..Len(modes) : modes[k].id = xid}
  IN IF hits = {} THEN NULL
     ELSE Ptr(modes[CHOOSE k \in hits : \A h \in hits : k <= h])

(***************************************************************************)
(* mode_refresh.  The double it returns is kept as an exact fraction       *)
(* <<numerator, denominator>>; vTotal is carried in half lines, which      *)
(* makes the halving for interlace exact.                                  *)
(***************************************************************************)
HasFlag(flags, bit) == (flags \div bit) % 2 = 1

mode_refresh_swapped(mode_info) ==
  LET v0 == 2 * mode_info.vTotal
      v1 == IF HasFlag(mode_info.modeFlags, RR_DoubleScan) THEN v0 \div 2 ELSE v0
      v2 == IF HasFlag(mode_info.modeFlags, RR_Interlace) THEN v1 * 2 ELSE v1
  IN IF mode_info.hTotal # 0 /\ v2 # 0
     THEN <<2 * mode_info.dotClock, mode_info.hTotal * v2>>
     ELSE <<0, 1>>

mode_refresh(mode_info) ==
  LET v0 == 2 * mode_info.vTotal
      v1 == IF HasFlag(mode_info.modeFlags, RR_DoubleScan) THEN v0 * 2 ELSE v0
      v2 == IF HasFlag(mode_info.modeFlags, RR_Interlace) THEN v1 \div 2 ELSE v1
  IN IF mode_info.hTotal # 0 /\ v2 # 0
     THEN <<2 * mode_info.dotClock, mode_info.hTotal * v2>>
     ELSE <<0, 1>>

(***************************************************************************)
(* State.                                                                  *)
(***************************************************************************)
VARIABLES
  canOpen,      \* environment: XOpenDisplay will succeed
  srvModes,     \* server: the global mode table
  srvOutputs,   \* server: per output, name, connection, crtc, modes, EDID
  srvCrtcs,     \* server: per CRTC, mode, position, rotation, outputs
  pc,           \* "start", "running", "crashed" or "exited"
  dpy,          \* the static Display pointer
  res,          \* the static XRRScreenResources pointer
  notebook,     \* the tabs built by activate, one per listed output
  nullUses,     \* the Xlib calls made on a NULL Display
  lastAct,      \* what the last row_activated did
  activations,  \* number of row_activated calls that found their row
  requests      \* number of XRRSetCrtcConfig requests sent

vars == <<canOpen, srvModes, srvOutputs, srvCrtcs, pc, dpy, res, notebook,
          nullUses, lastAct, activations, requests>>

(***************************************************************************)
(* activate, lines 189-314: the tab of one output.                         *)
(***************************************************************************)
EmptyName == [j \in 0..(NameLen - 1) |-> 0]

NameSeq(modelname) == [j \in 1..NameLen |-> modelname[j - 1]]

\* lines 237-251: the row of one resolved mode; n counts from 0.  refresh
\* and pixclock hold the numbers handed to "%6.2fHz" and "%6.3fMHz".
list_store_row(output_info, n, mode_info) ==
  [xid        |-> output_info.modes[n + 1],
   xid_string |-> <<48, 120>> \o HexDigits(output_info.modes[n + 1]),
   name       |-> mode_info.name,
   refresh    |-> mode_refresh(mode_info),
   pixclock   |-> mode_info.dotClock,
   preferred  |-> n < output_info.npreferred]

\* the loop with a break in place of the continue of line 235
list_store_fill_break(modes, output_info) ==
  LET F[n \in 0..Len(output_info.modes)] ==
        IF n = 0 THEN [rows |-> <<>>, stop |-> FALSE]
        ELSE LET mode_info == find_mode_by_xid(modes, output_info.modes[n])
             IN IF F[n - 1].stop \/ mode_info = NULL
                THEN [rows |-> F[n - 1].rows, stop |-> TRUE]
                ELSE [rows |-> Append(F[n - 1].rows,
                                      list_store_row(output_info, n - 1, Deref(mode_info))),
                      stop |-> FALSE]
  IN F[Len(output_info.modes)].rows

\* lines 225-257: the rows appended to the list store of one output
list_store_fill(modes, output_info) ==
  LET F[n \in 0..Len(output_info.modes)] ==
        IF n = 0 THEN <<>>
        ELSE LET mode_info == find_mode_by_xid(modes, output_info.modes[n])
             IN IF mode_info = NULL THEN F[n - 1]
                ELSE Append(F[n - 1], list_store_row(output_info, n - 1, Deref(mode_info)))
  IN F[Len(output_info.modes)]

\* lines 211-219: the output gets no tab
SkipsOutput(output_info, crtc_info) ==
  \/ output_info.connection = RR_Disconnected
  \/ output_info.crtc = None
  \/ crtc_info = NULL

\* lines 221-223 and 308: the EDID of the output, decoded into the label.
\* junk is what lies behind the malloc'ed copy, tail what lies behind
\* modelname[13] on the stack, up to the next NUL.
OutputPage(k, modes, output_info, junk, tail) ==
  LET e      == output_edid_get(output_info.prop)
      called == e.ret # NULL /\ e.length # 0
      parsed == IF called THEN parseedid(EdidMemory(Deref(e.ret), junk), EmptyName)
                ELSE [sumWarn |-> FALSE, hdrWarns |-> 0,
                      modelname |-> EmptyName, maxRead |-> -1]
  IN [output      |-> k,
      edid_length |-> e.length,
      called      |-> called,
      sumWarn     |-> parsed.sumWarn,
      hdrWarns    |-> parsed.hdrWarns,
      modelname   |-> parsed.modelname,
      maxRead     |-> parsed.maxRead,
      label       |-> output_info.name \o <<40>>
                        \o CStr(NameSeq(parsed.modelname) \o tail) \o <<41>>,
      store       |-> list_store_fill(modes, output_info)]

\* lines 189-314: the loop over res->outputs
BuildNotebook(snapshot, outs, crtcInfo, junk, tail) ==
  LET F[k \in 0..Len(snapshot.outputs)] ==
        IF k = 0 THEN <<>>
        ELSE IF SkipsOutput(outs[snapshot.outputs[k]], crtcInfo[k]) THEN F[k - 1]
        ELSE Append(F[k - 1],
                    OutputPage(k, snapshot.modes, outs[snapshot.outputs[k]],
                               junk[k], tail[k]))
  IN F[Len(snapshot.outputs)]

(***************************************************************************)
(* What the environment can put behind a buffer.                           *)
(***************************************************************************)
Zeros(n) == [i \in 1..n |-> 0]

\* an 18-byte descriptor block
Descriptor(b0, b1, tag, name) == <<b0, b1, 0, tag, 0>> \o name

TimingDescriptor == <<1, 29>> \o Zeros(16)

Pad(name) == name \o <<LineFeed>> \o [i \in 1..(NameLen - Len(name) - 1) |-> 32]

\* a 128-byte block from an 8-byte header, the descriptors at 0x36 and 0x6C
\* and the checksum error err (0: the block sums to 0)
EdidBlock(header, d1, d4, err) ==
  LET body == header \o Zeros(DescStart - HeaderLen) \o d1
                \o TimingDescriptor \o TimingDescriptor \o d4 \o <<0>>
      sum  == SumBytes([i \in 0..(EdidLen - 2) |-> body[i + 1]], 0, EdidLen - 1)
  IN body \o <<(512 - sum + err) % 256>>

GoodHeader == <<0, 255, 255, 255, 255, 255, 255, 0>>

GoodBlock ==
  EdidBlock(GoodHeader, Descriptor(0, 0, ModelNameTag, Pad(<<65, 66, 67>>)),
            TimingDescriptor, 0)

JunkBlocks == {Zeros(EdidLen), GoodBlock}

StackTails == {<<>>, <<85>>}

Property(status, type, format, data) ==
  [status |-> status, type |-> type, format |-> format,
   nitems |-> Len(data), data |-> data]

NoProperty == Property(Success, None, 0, <<>>)

(***************************************************************************)
(* activate.                                                               *)
(***************************************************************************)
\* lines 175-178 with XOpenDisplay returning NULL: DefaultScreen, RootWindow
\* and XRRGetScreenResources each read through the NULL pointer
ActivateNoDisplay ==
  /\ pc = "start"
  /\ ~canOpen
  /\ dpy' = NULL
  /\ \E faultAt \in 1..3 :
       nullUses' = SubSeq(<<"DefaultScreen", "RootWindow", "XRRGetScreenResources">>,
                          1, faultAt)
  /\ pc' = "crashed"
  /\ UNCHANGED <<canOpen, srvModes, srvOutputs, srvCrtcs, res, notebook,
                 lastAct, activations, requests>>

\* lines 175-316 with the display open.  failing holds the outputs for
\* which XRRGetCrtcInfo returns NULL (line 218).
Activate ==
  /\ pc = "start"
  /\ canOpen
  /\ dpy' = Ptr("display")
  /\ LET snapshot == [outputs |-> [k \in 1..NumOutputs |-> k], modes |-> srvModes]
     IN /\ res' = Ptr(snapshot)
        /\ \E failing \in SUBSET Outputs, junk \in [Outputs -> JunkBlocks],
              tail \in [Outputs -> StackTails] :
             notebook' =
               BuildNotebook(snapshot, srvOutputs,
                             [k \in Outputs |->
                                IF k \in failing \/ srvOutputs[k].crtc = None
                                THEN NULL
                                ELSE Ptr(srvCrtcs[srvOutputs[k].crtc])],
                             junk, tail)
  /\ pc' = "running"
  /\ UNCHANGED <<canOpen, srvModes, srvOutputs, srvCrtcs, nullUses,
                 lastAct, activations, requests>>

(***************************************************************************)
(* row_activated, lines 149-166: the row r of the tab p is activated.      *)
(* user_data points to res->outputs[k].  The request always asks for       *)
(* position (0, 0) and RR_Rotate_0; the Status XRRSetCrtcConfig returns is *)
(* dropped and the function returns void.                                  *)
(***************************************************************************)
CrtcRequest(crtc, xid, output) ==
  [crtc |-> crtc, x |-> 0, y |-> 0, mode |-> xid,
   rotation |-> RR_Rotate_0, outputs |-> <<output>>]

\* the server applies an accepted request to the CRTC
ApplyRequest(req) ==
  [mode |-> req.mode, x |-> req.x, y |-> req.y,
   rotation |-> req.rotation, outputs |-> req.outputs]

SetConfigStatus == {"RRSetConfigSuccess", "RRSetConfigFailed"}

RowActivated(p, r) ==
  /\ pc = "running"
  /\ activations < MaxSwitches
  /\ p \in 1..Len(notebook)
  /\ r \in 1..Len(notebook[p].store)
  /\ LET output      == Deref(res).outputs[notebook[p].output]
         output_info == srvOutputs[output]
         xid         == notebook[p].store[r].xid
         req         == CrtcRequest(output_info.crtc, xid, output)
     IN /\ activations' = activations + 1
        /\ requests' = requests + 1
        /\ \/ \* the output has no CRTC: the server answers the request for
              \* CRTC None with the X error BadRRCrtc, which ends the process
              \* unless an error handler that returns is installed
              /\ output_info.crtc = None
              /\ \E next \in {"exited", "running"} : pc' = next
              /\ lastAct' = Ptr([request |-> req, prior |-> NULL,
                                 reply |-> "BadRRCrtc", returned |-> "void"])
              /\ UNCHANGED srvCrtcs
           \/ /\ output_info.crtc # None
              /\ \E status \in SetConfigStatus :
                   /\ lastAct' = Ptr([request |-> req,
                                      prior |-> Ptr(srvCrtcs[output_info.crtc]),
                                      reply |-> status, returned |-> "void"])
                   /\ srvCrtcs' =
                        IF status = "RRSetConfigSuccess"
                        THEN [srvCrtcs EXCEPT ![output_info.crtc] = ApplyRequest(req)]
                        ELSE srvCrtcs
              /\ pc' = pc
  /\ UNCHANGED <<canOpen, srvModes, srvOutputs, dpy, res, notebook, nullUses>>

(***************************************************************************)
(* The environment: another RandR client turns an output off.              *)
(***************************************************************************)
ServerUnbind(o) ==
  /\ pc = "running"
  /\ srvOutputs[o].crtc # None
  /\ srvOutputs' = [srvOutputs EXCEPT ![o].crtc = None]
  /\ srvCrtcs' = [srvCrtcs EXCEPT ![srvOutputs[o].crtc].mode = None,
                                  ![srvOutputs[o].crtc].outputs = <<>>]
  /\ UNCHANGED <<canOpen, srvModes, pc, dpy, res, notebook, nullUses,
                 lastAct, activations, requests>>

Next ==
  \/ ActivateNoDisplay
  \/ Activate
  \/ \E p \in 1..NumOutputs, r \in 1..MaxAdv : RowActivated(p, r)
  \/ \E o \in Outputs : ServerUnbind(o)

(***************************************************************************)
(* Initial states.  The program starts with its statics zeroed; the        *)
(* server state is the input.                                              *)
(***************************************************************************)
InitProgram ==
  /\ pc = "start"
  /\ dpy = NULL
  /\ res = NULL
  /\ notebook = <<>>
  /\ nullUses = <<>>
  /\ lastAct = NULL
  /\ activations = 0
  /\ requests = 0

OutputName(k) == <<79, 48 + k>>

ModeInfo(id, dotClock, hTotal, vTotal, modeFlags) ==
  [id |-> id, name |-> <<109>> \o HexDigits(id), dotClock |-> dotClock,
   hTotal |-> hTotal, vTotal |-> vTotal, modeFlags |-> modeFlags]

StdMode(id) == ModeInfo(id, id, 1, 1, 0)

RECURSIVE ModeTable(_)
\* the modes with the ids in S, in ascending order
ModeTable(S) ==
  IF S = {} THEN <<>>
  ELSE LET m == SetMax(S) IN Append(ModeTable(S \ {m}), StdMode(m))

AllModes == [i \in 1..MaxMode |-> i]

Rotations == {RR_Rotate_0, 2}

OutputInfo(k, connection, crtc, modes, npreferred, prop) ==
  [name |-> OutputName(k), connection |-> connection, crtc |-> crtc,
   modes |-> modes, npreferred |-> npreferred, prop |-> prop]

OffOutput(k) == OutputInfo(k, RR_Disconnected, None, <<>>, 0, NoProperty)

CrtcInfo(mode, x, y, rotation, outputs) ==
  [mode |-> mode, x |-> x, y |-> y, rotation |-> rotation, outputs |-> outputs]

IdleCrtc == CrtcInfo(None, 0, 0, RR_Rotate_0, <<>>)

GoodProperty == Property(Success, XA_INTEGER, 8, GoodBlock)

\* the session: connection, CRTC binding and CRTC geometry of every output
Init ==
  /\ InitProgram
  /\ canOpen \in BOOLEAN
  /\ srvModes = ModeTable(1..MaxMode)
  /\ \E connection \in [Outputs -> {RR_Connected, RR_Disconnected}],
        bound \in [Outputs -> BOOLEAN],
        x \in [Outputs -> 0..MaxPos], y \in [Outputs -> 0..MaxPos],
        rotation \in [Outputs -> Rotations] :
       /\ srvOutputs =
            [k \in Outputs |->
               OutputInfo(k, connection[k], IF bound[k] THEN k ELSE None,
                          AllModes, 1,
                          IF k = 1 THEN GoodProperty ELSE NoProperty)]
       /\ srvCrtcs =
            [k \in Outputs |->
               IF bound[k] THEN CrtcInfo(1, x[k], y[k], rotation[k], <<k>>)
               ELSE CrtcInfo(None, x[k], y[k], rotation[k], <<>>)]

Spec == Init /\ [][Next]_vars

\* one output listed; the others are off
OneOutput(info) ==
  /\ srvOutputs = [k \in Outputs |-> IF k = 1 THEN info ELSE OffOutput(k)]
  /\ srvCrtcs = [k \in Outputs |->
                   IF k = 1 THEN CrtcInfo(1, 0, 0, RR_Rotate_0, <<1>>) ELSE IdleCrtc]

(***************************************************************************)
(* The EDID property of the output as the input.                           *)
(***************************************************************************)
Headers ==
  {GoodHeader, [GoodHeader EXCEPT ![1] = 255], [GoodHeader EXCEPT ![8] = 255],
   [GoodHeader EXCEPT ![1] = 1], [GoodHeader EXCEPT ![4] = 0]}

Names ==
  {Pad(<<65, 66, 67>>), Pad(<<>>), Pad(<<65, 66, 67, 68, 69, 70>>),
   [i \in 1..NameLen |-> 64 + i]}

FirstDescriptors ==
  {Descriptor(b[1], b[2], tag, name) :
     b \in {<<0, 0>>, <<0, 1>>, <<1, 0>>}, tag \in {ModelNameTag, 254},
     name \in Names}

LastDescriptors ==
  {TimingDescriptor, Descriptor(0, 0, ModelNameTag, Pad(<<88, 89>>))}

EdidBlocks ==
  {EdidBlock(h, d1, d4, err) :
     h \in Headers, d1 \in FirstDescriptors, d4 \in LastDescriptors,
     err \in {0, 1}}

EdidLengths == {1, 127, EdidLen}

EdidProperties ==
  {Property(Success, shape[1], shape[2], SubSeq(b, 1, n)) :
     shape \in {<<XA_INTEGER, 8>>, <<XA_INTEGER, 16>>, <<4, 8>>},
     b \in EdidBlocks, n \in EdidLengths}
  \cup {Property(1, None, 0, <<>>), NoProperty}

InitEdid ==
  /\ InitProgram
  /\ canOpen \in BOOLEAN
  /\ srvModes = ModeTable({1})
  /\ \E prop \in EdidProperties :
       OneOutput(OutputInfo(1, RR_Connected, 1, <<1>>, 1, prop))

SpecEdid == InitEdid /\ [][Next]_vars

(***************************************************************************)
(* The mode table and the advertised mode list as the input.               *)
(***************************************************************************)
\* the mode lists an output can advertise: no identifier twice
AdvLists ==
  {l \in UNION {[1..n -> 1..MaxMode] : n \in 0..MaxAdv} :
     \A i, j \in 1..Len(l) : l[i] = l[j] => i = j}

InitCatalog ==
  /\ InitProgram
  /\ canOpen \in BOOLEAN
  /\ \E S \in SUBSET (1..MaxMode) : srvModes = ModeTable(S)
  /\ \E modes \in AdvLists, npreferred \in 0..MaxAdv :
       /\ npreferred <= Len(modes)
       /\ OneOutput(OutputInfo(1, RR_Connected, 1, modes, npreferred, NoProperty))

SpecCatalog == InitCatalog /\ [][Next]_vars

(***************************************************************************)
(* The timing of the mode as the input.                                    *)
(***************************************************************************)
ModeFlagSets ==
  {0, RR_Interlace, RR_DoubleScan, RR_Interlace + RR_DoubleScan,
   1, 1 + RR_Interlace + RR_DoubleScan}

InitRefresh ==
  /\ InitProgram
  /\ canOpen \in BOOLEAN
  /\ \E dotClock \in 0..MaxClock, hTotal \in 0..MaxTotal, vTotal \in 0..MaxTotal,
        modeFlags \in ModeFlagSets :
       srvModes = <<ModeInfo(1, dotClock, hTotal, vTotal, modeFlags)>>
  /\ OneOutput(OutputInfo(1, RR_Connected, 1, <<1>>, 1, NoProperty))

SpecRefresh == InitRefresh /\ [][Next]_vars

(***************************************************************************)
(* Properties.                                                             *)
(***************************************************************************)
\* the XRROutputInfo of the output of tab p
PageOutputInfo(p) == srvOutputs[Deref(res).outputs[notebook[p].output]]

\* the text between the parentheses of the label of tab p
LabelModel(p) ==
  SubSeq(notebook[p].label, Len(PageOutputInfo(p).name) + 2,
         Len(notebook[p].label) - 1)

\* the tabs whose EDID was decoded from a full 128-byte block
FullBlockPages ==
  {p \in 1..Len(notebook) :
     notebook[p].called /\ notebook[p].edid_length = EdidLen}

\* a row_activated step
Switches == activations' = activations + 1

DescOffsets == {DescStart + n * DescStride : n \in 0..3}

\* the offsets of the blocks that start 00 00 and carry the tag 0xFC
NameDescriptors(data) ==
  {i \in DescOffsets :
     data[i + 1] = 0 /\ data[i + 2] = 0 /\ data[i + 4] = ModelNameTag}

\* the offsets of the blocks that start 00 and carry the tag 0xFC
HalfNameDescriptors(data) ==
  {i \in DescOffsets : data[i + 1] = 0 /\ data[i + 4] = ModelNameTag}

RECURSIVE Before(_, _)
\* the bytes before the first byte equal to stop
Before(bytes, stop) ==
  IF bytes = <<>> \/ Head(bytes) = stop THEN <<>>
  ELSE <<Head(bytes)>> \o Before(Tail(bytes), stop)

\* equality of two fractions
RatEq(a, b) == a[1] * b[2] = b[1] * a[2]

\* C1: a mode switch on an output that has no CRTC returns a "no CRTC"
\* failure and sends no commit-CRTC-configuration request.
C1_NoCrtcNoCommit ==
  [][(Switches /\ Deref(lastAct').request.crtc = None)
       => (requests' = requests /\ Deref(lastAct').returned = "NoCrtcError")]_vars

\* C2: the configuration a successful mode switch commits carries the
\* position and rotation the CRTC had before it; only the mode changes.
C2_SwitchKeepsGeometry ==
  [][(Switches /\ Deref(lastAct').reply = "RRSetConfigSuccess")
       => LET c == Deref(lastAct').request.crtc
          IN /\ srvCrtcs'[c].x = srvCrtcs[c].x
             /\ srvCrtcs'[c].y = srvCrtcs[c].y
             /\ srvCrtcs'[c].rotation = srvCrtcs[c].rotation]_vars

\* C3: when the server refuses the configuration, the switch reports a
\* "server rejected" failure to its caller, the prior configuration stays
\* in effect and the request is sent once.
C3_RejectionReported ==
  [][(Switches /\ Deref(lastAct').reply = "RRSetConfigFailed")
       => /\ Deref(lastAct').returned = "ServerRejectedError"
          /\ srvCrtcs' = srvCrtcs
          /\ requests' = requests + 1]_vars

\* C4: when the session cannot be opened, no query is made on the unopened
\* session, no catalog is built and the process does not crash.
C4_NoDisplayFailsCleanly ==
  (pc # "start" /\ dpy = NULL)
    => (nullUses = <<>> /\ notebook = <<>> /\ pc # "crashed")

\* C5: for a 128-byte block the header warning is raised if and only if the
\* first 8 bytes differ from 00 FF FF FF FF FF FF 00.
C5_HeaderWarningIffBadHeader ==
  \A p \in FullBlockPages :
    (notebook[p].hdrWarns > 0)
      <=> (SubSeq(PageOutputInfo(p).prop.data, 1, HeaderLen) # GoodHeader)

\* C6: the model name in the label is exactly the bytes of the 13-byte
\* field of the model name descriptor that precede the first 0x0A, all 13
\* when none is 0x0A, and nothing beyond them.
C6_NameIsFieldBeforeLineFeed ==
  \A p \in FullBlockPages :
    LET data == PageOutputInfo(p).prop.data
        D    == NameDescriptors(data)
    IN (D # {} /\ HalfNameDescriptors(data) = D)
         => LET i == SetMax(D)
            IN /\ LabelModel(p) = Before(SubSeq(data, i + 6, i + 5 + NameLen), LineFeed)
               /\ Len(LabelModel(p)) <= NameLen

\* C7: the list of an output holds one row per advertised mode identifier
\* that resolves in the global mode table, in the order of the advertised
\* list; identifiers that do not resolve are skipped.
C7_CatalogIsResolvedSublist ==
  \A p \in 1..Len(notebook) :
    LET Resolves(id) == \E k \in 1..Len(Deref(res).modes) : Deref(res).modes[k].id = id
    IN [n \in 1..Len(notebook[p].store) |-> notebook[p].store[n].xid]
         = SelectSeq(PageOutputInfo(p).modes, Resolves)

\* a list with an unresolved identifier between two resolved ones was built
C7_Witness ==
  \E p \in 1..Len(notebook) :
    LET adv == PageOutputInfo(p).modes
    IN /\ Len(adv) = 3
       /\ find_mode_by_xid(Deref(res).modes, adv[1]) # NULL
       /\ find_mode_by_xid(Deref(res).modes, adv[2]) = NULL
       /\ find_mode_by_xid(Deref(res).modes, adv[3]) # NULL
       /\ adv[1] > adv[3]
       /\ Len(notebook[p].store) = 2

\* the refresh rate the claim states for a mode: pixel clock over hTotal
\* times vTotal, vTotal doubled for doublescan and halved for interlace
StatedRefresh(m) ==
  LET ds == HasFlag(m.modeFlags, RR_DoubleScan)
      il == HasFlag(m.modeFlags, RR_Interlace)
  IN IF m.hTotal = 0 \/ m.vTotal = 0 THEN <<0, 1>>
     ELSE <<m.dotClock * (IF il THEN 2 ELSE 1),
            m.hTotal * m.vTotal * (IF ds THEN 2 ELSE 1)>>

\* C8: the refresh rate of a row is pixel_clock / (h_total * v_eff), and 0
\* when h_total or v_total is 0; with h, v > 0 doublescan alone halves and
\* interlace alone doubles the rate of the same mode without flags.
C8_RefreshRate ==
  \A p \in 1..Len(notebook) : \A n \in 1..Len(notebook[p].store) :
    LET m     == Deref(find_mode_by_xid(Deref(res).modes, notebook[p].store[n].xid))
        rate  == notebook[p].store[n].refresh
        plain == mode_refresh([m EXCEPT !.modeFlags = 0])
        ds    == mode_refresh([m EXCEPT !.modeFlags = RR_DoubleScan])
        il    == mode_refresh([m EXCEPT !.modeFlags = RR_Interlace])
    IN /\ rate[2] # 0
       /\ RatEq(rate, StatedRefresh(m))
       /\ (m.hTotal = 0 \/ m.vTotal = 0) => rate[1] = 0
       /\ (m.hTotal > 0 /\ m.vTotal > 0)
            => /\ RatEq(plain, <<m.dotClock, m.hTotal * m.vTotal>>)
               /\ RatEq(ds, <<plain[1], 2 * plain[2]>>)
               /\ RatEq(il, <<2 * plain[1], plain[2]>>)

\* a row of an interlaced mode with an odd vTotal and a rate of 1 Hz
C8_Witness ==
  \E p \in 1..Len(notebook) : \E n \in 1..Len(notebook[p].store) :
    LET m == Deref(find_mode_by_xid(Deref(res).modes, notebook[p].store[n].xid))
    IN /\ m.modeFlags = RR_Interlace
       /\ m.dotClock = 3 /\ m.hTotal = 2 /\ m.vTotal = 3
       /\ RatEq(notebook[p].store[n].refresh, <<1, 1>>)

\* C9: a property value of 1 to 127 bytes is rejected, leaving the model
\* name absent, and no byte at or beyond the returned length is read.
C9_ShortBlockRejected ==
  \A p \in 1..Len(notebook) :
    /\ notebook[p].called => notebook[p].maxRead < notebook[p].edid_length
    /\ notebook[p].edid_length \in 1..(EdidLen - 1) => LabelModel(p) = <<>>

\* C10: for a 128-byte block a model name is produced if and only if one of
\* the four descriptor blocks starts 00 00 and carries the tag 0xFC.
C10_NameIffNameDescriptor ==
  \A p \in FullBlockPages :
    (notebook[p].modelname # EmptyName)
      <=> (NameDescriptors(PageOutputInfo(p).prop.data) # {})

====
